---- MODULE Spec2Model ----
(***************************************************************************)
(* Host side of the CADit embed example: the postMessage protocol between  *)
(* the host page and the embedded CADit iframe.  The repository carries    *)
(* two host scripts, src/script.js (viewer + download button) and          *)
(* src/unnamed/part_000 (init button, immediate download); the variable    *)
(* `variant` says which of the two the page has loaded.                    *)
(***************************************************************************)
EXTENDS Integers, Sequences, FiniteSets, TLC

\* ------------------------------------------------------------------ bounds
\* the count of dispatched 'ready' messages stops at this number
MaxReady == 2
\* number of blob reads (blob.arrayBuffer()) that may be pending at once
MaxPending == 2

\* ----------------------------------------------------------- configuration
Variants == {"script.js", "part_000"}

CADIT_ORIGIN(v) ==
  IF v = "script.js" THEN "https://app.cadit.app" ELSE "https://app.cadit.com"

PARTNER_NAME == "MyApp"

\* ------------------------------------------------------------- JS values
\* the JavaScript values undefined and null, where a field may hold them
Undefined == "<undefined>"
Null == "<null>"

\* the Blob objects the embedded application may export; NoBlob stands for
\* a missing blob field
NoBlob == Undefined
Blobs == {"blobA", "blobB"}

\* blob.size in bytes
BlobSize(b) == IF b = "blobA" THEN 512 ELSE 2048

\* Math.round(x / 1024) for a non-negative integer x (halves round up)
RoundKB(x) == (2 * x + 1024) \div 2048

\* a message payload: null, undefined, or an object with optional fields
Payload(kind, version, blob, filename, partnerName, features) ==
  [kind |-> kind, version |-> version, blob |-> blob, filename |-> filename,
   partnerName |-> partnerName, features |-> features, info |-> Undefined]

NullPayload == Payload("null", Undefined, NoBlob, Undefined, Undefined, <<>>)
UndefinedPayload == Payload("undefined", Undefined, NoBlob, Undefined, Undefined, <<>>)
ObjPayload(version, blob, filename) ==
  Payload("object", version, blob, filename, Undefined, <<>>)

\* JavaScript truthiness of a string-or-undefined field
Truthy(s) == s \notin {Undefined, Null, ""}

\* payload?.version, payload?.blob, payload?.filename
OptVersion(p) == IF p.kind = "object" THEN p.version ELSE Undefined
OptBlob(p) == IF p.kind = "object" THEN p.blob ELSE NoBlob

\* ------------------------------------------------------------ input sets
\* the origins events arrive from: the two configured origins, each of
\* which is foreign to the script configured with the other
Origins == {"https://app.cadit.app", "https://app.cadit.com"}

\* version strings a 'ready' payload may report
Versions == {"1.0", "2.0"}

\* file names an 'export-stl' payload may carry (Undefined: none)
Filenames == {Undefined, "part.stl"}

\* payloads sent with 'ready': null, {}, {version}
ReadyPayloads ==
  {NullPayload, ObjPayload(Undefined, NoBlob, Undefined)}
  \cup {ObjPayload(v, NoBlob, Undefined) : v \in Versions}

\* payloads sent with 'export-stl': undefined, {}, {blob}, {blob, filename}
ExportPayloads ==
  {UndefinedPayload, ObjPayload(Undefined, NoBlob, Undefined)}
  \cup {ObjPayload(Undefined, b, f) : b \in Blobs, f \in Filenames}

\* event.data: {type, payload} with one of the two inbound tags, an unknown
\* tag, an empty or missing tag, or no data at all
Data(hasData, type, payload) ==
  [hasData |-> hasData, type |-> type, payload |-> payload]

Datas ==
  {Data(TRUE, "ready", p) : p \in ReadyPayloads}
  \cup {Data(TRUE, "export-stl", p) : p \in ExportPayloads}
  \cup {Data(TRUE, t, NullPayload) : t \in {"resize", "", Undefined}}
  \cup {Data(FALSE, Undefined, UndefinedPayload)}

\* a message event: origin plus data
Events ==
  {[origin |-> o, hasData |-> d.hasData, type |-> d.type, payload |-> d.payload] :
     o \in Origins, d \in Datas}

\* ------------------------------------------------------------------ state
VARIABLES
  variant,            \* which host script the page runs
  contentWindow,      \* caditFrame.contentWindow is available
  isReady,            \* let isReady
  currentBlob,        \* let currentBlob (Null = null)
  currentFilename,    \* let currentFilename (Null = null)
  statusText,         \* statusText.textContent
  getStlBtnDisabled,  \* getStlBtn.disabled
  downloadBtnDisabled,\* downloadBtn.disabled
  previewDisplay,     \* previewContainer.style.display
  renderer,           \* the viewer has been initialised (renderer is set)
  mesh,               \* blob the mesh in the scene was built from (Undefined = none)
  pending,            \* blob.arrayBuffer() reads not yet resolved, per blob
  eventLog,           \* eventLog.firstChild: the newest entry of the log panel
  posted,             \* contentWindow.postMessage calls of the last handler
  consoleOut,         \* console lines written by the last handler
  alertMsg,           \* alert() shown by the last handler ("" = none)
  download,           \* file download started by the last handler
  lastCall,           \* the handler that ran last, with its event's origin and tag
  readyCount          \* 'ready' messages dispatched so far (counted up to MaxReady)

vars ==
  <<variant, contentWindow, isReady, currentBlob, currentFilename, statusText,
    getStlBtnDisabled, downloadBtnDisabled, previewDisplay, renderer, mesh,
    pending, eventLog, posted, consoleOut, alertMsg, download, lastCall,
    readyCount>>

\* the session fields the handlers read and write, as one record
State ==
  [variant |-> variant, contentWindow |-> contentWindow, isReady |-> isReady,
   currentBlob |-> currentBlob, currentFilename |-> currentFilename,
   statusText |-> statusText, getStlBtnDisabled |-> getStlBtnDisabled,
   downloadBtnDisabled |-> downloadBtnDisabled,
   previewDisplay |-> previewDisplay, renderer |-> renderer, mesh |-> mesh,
   pending |-> pending, eventLog |-> eventLog, posted |-> posted,
   consoleOut |-> consoleOut, alertMsg |-> alertMsg, download |-> download,
   readyCount |-> readyCount]

\* the handler's result s becomes the next state
Becomes(s) ==
  /\ variant' = s.variant
  /\ contentWindow' = s.contentWindow
  /\ isReady' = s.isReady
  /\ currentBlob' = s.currentBlob
  /\ currentFilename' = s.currentFilename
  /\ statusText' = s.statusText
  /\ getStlBtnDisabled' = s.getStlBtnDisabled
  /\ downloadBtnDisabled' = s.downloadBtnDisabled
  /\ previewDisplay' = s.previewDisplay
  /\ renderer' = s.renderer
  /\ mesh' = s.mesh
  /\ pending' = s.pending
  /\ eventLog' = s.eventLog
  /\ posted' = s.posted
  /\ consoleOut' = s.consoleOut
  /\ alertMsg' = s.alertMsg
  /\ download' = s.download
  /\ readyCount' = s.readyCount

\* ----------------------------------------------------------- status texts
Status(fmt, arg, kb) == [fmt |-> fmt, arg |-> arg, kb |-> kb]

\* the text the markup gives the status line before any handler has run
StatusInitial == Status("<markup>", "", 0)
StatusReady(version) == Status("CADit ready (v%s)", version, 0)
StatusNoData == Status("Error: No STL data received", "", 0)
StatusReceived(filename, kb) == Status("Received: %s (%d KB)", filename, kb)
StatusDownloaded(filename) == Status("Downloaded: %s", filename, 0)
StatusInitialized == Status("Initialized with partner name: %s", PARTNER_NAME, 0)
StatusRequesting == Status("Requesting STL export...", "", 0)

NoDownload == [blob |-> NoBlob, filename |-> Undefined]

\* the state a handler starts from: the last handler's postMessage calls,
\* console lines, alert and download are its own and are not carried over
Enter(s) ==
  [s EXCEPT !.posted = <<>>, !.consoleOut = {}, !.alertMsg = "",
            !.download = NoDownload]

\* ------------------------------------------------------------- logEvent
\* `Blob(${data.blob.size} bytes, ${data.blob.type})`
BlobLabel(b) == IF BlobSize(b) = 512 THEN "Blob(512 bytes)" ELSE "Blob(2048 bytes)"

\* dataStr of a log entry: '' for a falsy data, else JSON.stringify of the
\* data; script.js first replaces a blob by "Blob(<size> bytes, <type>)",
\* part_000 stringifies the Blob itself, which JSON renders as {}
DataStr(v, data) ==
  IF data.kind # "object" THEN [data EXCEPT !.kind = "", !.blob = NoBlob]
  ELSE IF data.blob = NoBlob THEN data
  ELSE IF v = "script.js" THEN [data EXCEPT !.blob = BlobLabel(data.blob)]
  ELSE [data EXCEPT !.blob = "{}"]

LogEntry(v, type, direction, data) ==
  [type |-> type, direction |-> direction, dataStr |-> DataStr(v, data)]

\* eventLog.insertBefore(entry, eventLog.firstChild): entry is the first child
logEvent(s, type, direction, data) ==
  [s EXCEPT !.eventLog = LogEntry(s.variant, type, direction, data)]

\* ----------------------------------------------------------- sendMessage
\* an encoder that leaves the payload out of a message that carries none,
\* as the README's get-stl example does
encode_omitNull(type, payload) ==
  Data(TRUE, type, IF payload.kind = "null" THEN UndefinedPayload ELSE payload)

\* const message = { type, payload }
encode(type, payload) == Data(TRUE, type, payload)

\* the call contentWindow.postMessage(message, targetOrigin)
Message(type, payload, targetOrigin) ==
  LET message == encode(type, payload)
  IN  [type |-> message.type, payload |-> message.payload,
       targetOrigin |-> targetOrigin]

\* sendMessage with the wildcard as the target origin
sendMessage_wildcard(s, type, payload) ==
  IF ~s.contentWindow
  THEN [s EXCEPT !.consoleOut = @ \cup {"error: CADit iframe not available"}]
  ELSE logEvent(
         [s EXCEPT !.posted = Append(@, Message(type, payload, "*"))],
         type, "sent", payload)

\* sendMessage that posts without testing that the iframe is there
sendMessage_noCheck(s, type, payload) ==
  logEvent(
    [s EXCEPT !.posted =
       Append(@, Message(type, payload, CADIT_ORIGIN(s.variant)))],
    type, "sent", payload)

sendMessage(s, type, payload) ==
  IF ~s.contentWindow
  THEN [s EXCEPT !.consoleOut = @ \cup {"error: CADit iframe not available"}]
  ELSE logEvent(
         [s EXCEPT !.posted =
            Append(@, Message(type, payload, CADIT_ORIGIN(s.variant)))],
         type, "sent", payload)

\* -------------------------------------------------------------- sendInit
InitPayload ==
  Payload("object", Undefined, NoBlob, Undefined, PARTNER_NAME, <<"export">>)

\* sendInit with the payload of the README's example, without features
sendInit_noFeatures(s) ==
  [sendMessage(s, "init", [InitPayload EXCEPT !.features = <<>>])
     EXCEPT !.statusText = StatusInitialized]

sendInit(s) ==
  [sendMessage(s, "init", InitPayload) EXCEPT !.statusText = StatusInitialized]

\* ------------------------------------------------------------ requestStl
\* requestStl without the readiness check
requestStl_unguarded(s) ==
  [sendMessage(s, "get-stl", NullPayload) EXCEPT !.statusText = StatusRequesting]

requestStl(s) ==
  IF ~s.isReady
  THEN [s EXCEPT !.alertMsg = "CADit is not ready yet. Please wait for it to load."]
  ELSE [sendMessage(s, "get-stl", NullPayload) EXCEPT !.statusText = StatusRequesting]

\* ----------------------------------------------------------- handleReady
\* payload?.version || 'unknown'
VersionText(payload) ==
  IF Truthy(OptVersion(payload)) THEN OptVersion(payload) ELSE "unknown"

\* handleReady flipping the flag instead of setting it
handleReady_toggle(s, payload) ==
  sendInit([s EXCEPT !.isReady = ~@,
                     !.statusText = StatusReady(VersionText(payload)),
                     !.getStlBtnDisabled = FALSE])

\* handleReady starting the session afresh, dropping the stored artifact
handleReady_resetArtifact(s, payload) ==
  sendInit([s EXCEPT !.isReady = TRUE,
                     !.statusText = StatusReady(VersionText(payload)),
                     !.getStlBtnDisabled = FALSE,
                     !.currentBlob = Null,
                     !.currentFilename = Null])

handleReady(s, payload) ==
  sendInit([s EXCEPT !.isReady = TRUE,
                     !.statusText = StatusReady(VersionText(payload)),
                     !.getStlBtnDisabled = FALSE])

\* ------------------------------------------------------- handleExportStl
\* payload.filename || 'design.stl'
FilenameOf(payload) ==
  IF Truthy(payload.filename) THEN payload.filename ELSE "design.stl"

\* loadSTL(blob): starts blob.arrayBuffer(); the continuation runs later
loadSTL(s, blob) == [s EXCEPT !.pending[blob] = @ + 1]

\* initViewer(): creates scene, camera, renderer and controls
initViewer(s) == [s EXCEPT !.renderer = TRUE]

\* handleExportStl falling back to the previous export's file name
handleExportStl_keepName(s, payload) ==
  IF ~Truthy(OptBlob(payload))
  THEN [s EXCEPT !.consoleOut = @ \cup {"error: No blob in export-stl payload"},
                 !.statusText = StatusNoData]
  ELSE LET name == IF Truthy(payload.filename) THEN payload.filename
                   ELSE IF Truthy(s.currentFilename) THEN s.currentFilename
                   ELSE "design.stl"
           stored == [s EXCEPT !.currentBlob = payload.blob,
                               !.currentFilename = name,
                               !.downloadBtnDisabled = FALSE,
                               !.previewDisplay = "block"]
           viewer == IF ~stored.renderer THEN initViewer(stored) ELSE stored
       IN  [loadSTL(viewer, payload.blob) EXCEPT
              !.statusText = StatusReceived(name, RoundKB(BlobSize(payload.blob)))]

handleExportStl(s, payload) ==
  IF ~Truthy(OptBlob(payload))
  THEN IF s.variant = "script.js"
       THEN [s EXCEPT !.consoleOut = @ \cup {"error: No blob in export-stl payload"},
                      !.statusText = StatusNoData]
       ELSE [s EXCEPT !.consoleOut = @ \cup {"error: No blob in export-stl payload"}]
  ELSE IF s.variant = "script.js"
       THEN LET stored == [s EXCEPT !.currentBlob = payload.blob,
                                    !.currentFilename = FilenameOf(payload),
                                    !.downloadBtnDisabled = FALSE,
                                    !.previewDisplay = "block"]
                viewer == IF ~stored.renderer THEN initViewer(stored) ELSE stored
            IN  [loadSTL(viewer, payload.blob) EXCEPT
                   !.statusText =
                     StatusReceived(FilenameOf(payload),
                                    RoundKB(BlobSize(payload.blob)))]
       ELSE [s EXCEPT !.download = [blob |-> payload.blob,
                                    filename |-> FilenameOf(payload)],
                      !.statusText = StatusDownloaded(FilenameOf(payload))]

\* ----------------------------------------------------------- downloadStl
\* downloadStl releasing the blob once it has been downloaded
downloadStl_consume(s) ==
  IF ~Truthy(s.currentBlob)
  THEN [s EXCEPT !.alertMsg = "No STL file available. Request an export first."]
  ELSE [s EXCEPT !.download = [blob |-> s.currentBlob,
                               filename |-> s.currentFilename],
                 !.statusText = StatusDownloaded(s.currentFilename),
                 !.currentBlob = Null]

downloadStl(s) ==
  IF ~Truthy(s.currentBlob)
  THEN [s EXCEPT !.alertMsg = "No STL file available. Request an export first."]
  ELSE [s EXCEPT !.download = [blob |-> s.currentBlob,
                               filename |-> s.currentFilename],
                 !.statusText = StatusDownloaded(s.currentFilename)]

\* --------------------------------------------------------- handleMessage
\* an origin check that lets either deployment's origin through
accept_eitherOrigin(v, messageOrigin) ==
  messageOrigin \in {CADIT_ORIGIN("script.js"), CADIT_ORIGIN("part_000")}

\* the origin check of handleMessage: event.origin !== CADIT_ORIGIN fails
accept(v, messageOrigin) == messageOrigin = CADIT_ORIGIN(v)

\* one more 'ready' message has been dispatched
Counted(s) ==
  [s EXCEPT !.readyCount = IF @ < MaxReady THEN @ + 1 ELSE @]

\* a switch whose default branch shares the 'ready' case
dispatch_unknownAsReady(s, type, payload) ==
  CASE type = "export-stl" -> handleExportStl(s, payload)
    [] OTHER -> handleReady(Counted(s), payload)

\* a switch that takes an export only once the session is ready
dispatch_exportWhenReady(s, type, payload) ==
  CASE type = "ready" -> handleReady(Counted(s), payload)
    [] type = "export-stl" ->
         IF s.isReady THEN handleExportStl(s, payload) ELSE s
    [] OTHER -> [s EXCEPT !.consoleOut = @ \cup {"log: Unknown message type"}]

dispatch(s, type, payload) ==
  CASE type = "ready" -> handleReady(Counted(s), payload)
    [] type = "export-stl" -> handleExportStl(s, payload)
    [] OTHER -> [s EXCEPT !.consoleOut = @ \cup {"log: Unknown message type"}]

\* const { type, payload } = event.data; if (!type) return;
\* destructuring a null data throws a TypeError, a falsy type is rejected,
\* otherwise type and payload are taken as they are
decode(raw) ==
  [error |-> IF ~raw.hasData THEN "TypeError"
             ELSE IF ~Truthy(raw.type) THEN "MissingTag" ELSE "",
   type |-> raw.type, payload |-> raw.payload]

handleMessage(s, event) ==
  IF ~accept(s.variant, event.origin)
  THEN IF s.variant = "script.js" /\ event.hasData /\ Truthy(event.type)
       THEN [s EXCEPT !.consoleOut = @ \cup {"log: Ignored message from origin"}]
       ELSE s
  ELSE LET message == decode(event)
       IN  IF message.error = "TypeError"
           THEN [s EXCEPT !.consoleOut = @ \cup {"uncaught TypeError"}]
           ELSE IF message.error = "MissingTag"
           THEN IF s.variant = "script.js" THEN s
                ELSE [s EXCEPT !.consoleOut =
                        @ \cup {"warn: Received message without type"}]
           ELSE LET logged ==
                      IF s.variant = "script.js"
                      THEN [s EXCEPT !.consoleOut = @ \cup {"log: Received message"}]
                      ELSE s
                IN  dispatch(logEvent(logged, message.type, "received",
                                      message.payload),
                             message.type, message.payload)

\* ------------------------------------------------------------------ Init
\* { info: 'Waiting for CADit to send ready message...' }
PageLoadedData ==
  [Payload("object", Undefined, NoBlob, Undefined, Undefined, <<>>)
     EXCEPT !.info = "Waiting for CADit to send ready message..."]

NoEvent ==
  [origin |-> "", hasData |-> FALSE, type |-> Undefined,
   payload |-> UndefinedPayload]

\* the record of a handler call: the handler, and the origin and type tag
\* of the event it was given
Call(op, event) == [op |-> op, origin |-> event.origin, type |-> event.type]

TotalPending(s) == s.pending["blobA"] + s.pending["blobB"]

\* the bound of the model: pending blob reads
WithinBounds(s) == TotalPending(s) <= MaxPending

\* The page has loaded one of the two scripts.  The buttons the script later
\* enables start disabled and the preview container it later shows starts
\* hidden; the script's last statement logs 'page-loaded'.
Init ==
  /\ variant \in Variants
  /\ contentWindow = TRUE
  /\ isReady = FALSE
  /\ currentBlob = Null
  /\ currentFilename = Null
  /\ statusText = StatusInitial
  /\ getStlBtnDisabled = TRUE
  /\ downloadBtnDisabled = TRUE
  /\ previewDisplay = "none"
  /\ renderer = FALSE
  /\ mesh = Undefined
  /\ pending = [b \in Blobs |-> 0]
  /\ eventLog = LogEntry(variant, "page-loaded", "sent", PageLoadedData)
  /\ posted = <<>>
  /\ consoleOut = {}
  /\ alertMsg = ""
  /\ download = NoDownload
  /\ lastCall = Call("load", NoEvent)
  /\ readyCount = 0

\* --------------------------------------------------------------- actions
\* window 'message' listener
Receive ==
  \E event \in Events :
    LET s == handleMessage(Enter(State), event)
    IN  /\ WithinBounds(s)
        /\ Becomes(s)
        /\ lastCall' = Call("handleMessage", event)

\* getStlBtn 'click' listener
ClickGetStl ==
  /\ Becomes(requestStl(Enter(State)))
  /\ lastCall' = Call("requestStl", NoEvent)

\* downloadBtn 'click' listener (script.js)
ClickDownload ==
  /\ variant = "script.js"
  /\ Becomes(downloadStl(Enter(State)))
  /\ lastCall' = Call("downloadStl", NoEvent)

\* initBtn 'click' listener (part_000)
ClickInit ==
  /\ variant = "part_000"
  /\ Becomes(sendInit(Enter(State)))
  /\ lastCall' = Call("sendInit", NoEvent)

\* the continuation of blob.arrayBuffer() in loadSTL: the old mesh is removed
\* from the scene and the mesh built from this blob is added
loadSTLThen(s, blob) ==
  [s EXCEPT !.pending[blob] = @ - 1, !.mesh = blob]

LoadResolved ==
  \E blob \in Blobs :
    /\ pending[blob] > 0
    /\ Becomes(loadSTLThen(Enter(State), blob))
    /\ lastCall' = Call("loadSTL.then", NoEvent)

\* the iframe leaves or re-enters the document: contentWindow is null while
\* it is detached
FrameChange ==
  /\ Becomes([Enter(State) EXCEPT !.contentWindow = ~@])
  /\ lastCall' = Call("frame", NoEvent)

Next ==
  \/ Receive
  \/ ClickGetStl
  \/ ClickDownload
  \/ ClickInit
  \/ LoadResolved
  \/ FrameChange

Spec == Init /\ [][Next]_vars

\* ------------------------------------------------------- shared by claims
TrustedOrigin == CADIT_ORIGIN(variant)

\* the state the 'message' listener leaves when it is given event now
After(event) == handleMessage(Enter(State), event)

\* the last handler that ran was the 'message' listener, given an event of
\* the trusted origin with this type tag
HandledTrusted(type) ==
  /\ lastCall.op = "handleMessage"
  /\ lastCall.origin = TrustedOrigin
  /\ lastCall.type = type

\* the session fields of a state record: ready flag, last artifact, status
SessionOf(s) == <<s.isReady, s.currentBlob, s.currentFilename, s.statusText>>

\* the page state outside the session fields and the handler's own output
PageOf(s) ==
  <<s.variant, s.contentWindow, s.getStlBtnDisabled, s.downloadBtnDisabled,
    s.previewDisplay, s.renderer, s.mesh, s.pending, s.eventLog, s.readyCount>>

TrustedEvents == {event \in Events : event.origin = TrustedOrigin}
UntrustedEvents == {event \in Events : event.origin # TrustedOrigin}

\* ---------------------------------------------------------------- C1
\* C1: in every reachable state, handling a message event whose origin
\* differs from the configured origin changes no session field (ready flag,
\* artifact bytes and filename, status) and no other page state, and posts
\* no message, whatever its data; only events of exactly the configured
\* origin get past the origin check.
C1_UntrustedIgnored ==
  /\ \A event \in UntrustedEvents :
       LET s == After(event)
       IN  /\ SessionOf(s) = SessionOf(State)
           /\ PageOf(s) = PageOf(State)
           /\ s.posted = <<>>
           /\ s.alertMsg = "" /\ s.download = NoDownload
  /\ \A o \in Origins : accept(variant, o) <=> o = TrustedOrigin
  /\ (lastCall.op = "handleMessage" /\ lastCall.origin # TrustedOrigin)
       => posted = <<>>

\* an untrusted 'ready' was handled and the session is still not ready
C1_Witness ==
  /\ lastCall.op = "handleMessage"
  /\ lastCall.origin # TrustedOrigin
  /\ lastCall.type = "ready"
  /\ ~isReady /\ posted = <<>> /\ statusText = StatusInitial

\* ---------------------------------------------------------------- C2
\* C2: every message the host posts is addressed to the configured origin,
\* never to the wildcard "*", and is the one sendMessage has just logged as
\* sent.
C2_TargetIsTrustedOrigin ==
  \A i \in 1..Len(posted) :
    /\ posted[i].targetOrigin = TrustedOrigin
    /\ posted[i].targetOrigin # "*"
    /\ posted[i].type \in {"init", "get-stl"}
    /\ eventLog.direction = "sent" /\ eventLog.type = posted[i].type

\* a get-stl request has been posted
C2_Witness == Len(posted) = 1 /\ posted[1].type = "get-stl"

\* this step is the 'message' listener handling a trusted 'ready'
TrustedReadyStep ==
  /\ lastCall'.op = "handleMessage"
  /\ lastCall'.origin = TrustedOrigin
  /\ lastCall'.type = "ready"

C3_Step ==
  /\ (isReady => isReady')
  /\ TrustedReadyStep =>
       /\ isReady'
       /\ readyCount' >= 1
       /\ statusText' = StatusInitialized
       /\ UNCHANGED <<currentBlob, currentFilename>>
  /\ (~isReady /\ isReady') => (TrustedReadyStep /\ readyCount = 0)

\* ---------------------------------------------------------------- C3
\* C3: the ready flag starts false, is set by every trusted 'ready' message,
\* is set by nothing else and is never reset; a 'ready' message handled when
\* the flag is already set leaves the session as the first one left it
\* (ready, artifact untouched, the same status).
C3_ReadyLatch ==
  /\ ~isReady
  /\ [][C3_Step]_vars

\* a second trusted 'ready' has just been handled
C3_Witness == HandledTrusted("ready") /\ readyCount >= 2 /\ isReady

\* ---------------------------------------------------------------- C4
\* C4: requestStl called while the session is not ready posts nothing, shows
\* the not-ready alert within the call and changes no session field or page
\* state; so a posted 'get-stl' implies that a trusted 'ready' was received.
C4_NotReadyRejected ==
  /\ ~isReady =>
       LET s == requestStl(Enter(State))
       IN  /\ s.posted = <<>>
           /\ s.alertMsg = "CADit is not ready yet. Please wait for it to load."
           /\ SessionOf(s) = SessionOf(State)
           /\ PageOf(s) = PageOf(State)
  /\ (lastCall.op = "requestStl" /\ ~isReady)
       => posted = <<>> /\ alertMsg # ""
  /\ (\E i \in 1..Len(posted) : posted[i].type = "get-stl")
       => readyCount >= 1 /\ isReady /\ lastCall.op = "requestStl"

\* requestStl has just run in a session that is not ready
C4_Witness ==
  /\ lastCall.op = "requestStl" /\ ~isReady /\ readyCount = 0
  /\ posted = <<>> /\ alertMsg # ""

\* ---------------------------------------------------------------- C5
\* the init message sendInit posts
InitMessage ==
  [type |-> "init",
   payload |-> [kind |-> "object", version |-> Undefined, blob |-> Undefined,
                filename |-> Undefined, partnerName |-> "MyApp",
                features |-> <<"export">>, info |-> Undefined],
   targetOrigin |-> TrustedOrigin]

\* C5: only the first trusted 'ready' of a session sends an automatic
\* 'init'; a trusted 'ready' handled when the session has already been
\* made ready by an earlier one sends none.
C5_OneInitPerSession ==
  (HandledTrusted("ready") /\ readyCount >= 2) => posted = <<>>

\* ---------------------------------------------------------------- C6
\* C6: in a session that has not yet received 'ready' (the initial state
\* among them) and whose embedded context is available, handling a trusted
\* 'ready' with any payload posts exactly one message, the init message with
\* the configured partner name and features ['export'], and leaves the
\* session ready.
C6_ReadyThenInit ==
  (readyCount = 0 /\ contentWindow) =>
    \A event \in TrustedEvents :
      (event.hasData /\ event.type = "ready") =>
        LET s == After(event)
        IN  /\ s.posted = <<InitMessage>>
            /\ s.posted[1].payload.partnerName = PARTNER_NAME
            /\ s.isReady

\* the first trusted 'ready' has been handled: one init posted, ready
C6_Witness ==
  /\ HandledTrusted("ready") /\ readyCount = 1
  /\ posted = <<InitMessage>> /\ isReady

\* ---------------------------------------------------------------- C7
\* C7: in script.js, handling a trusted 'export-stl' whose payload carries
\* a blob leaves currentBlob = payload.blob and currentFilename =
\* payload.filename, or 'design.stl' when the payload has no file name,
\* whatever artifact was stored before.
C7_ExportOverwrites ==
  variant = "script.js" =>
    \A event \in TrustedEvents :
      (event.hasData /\ event.type = "export-stl" /\ event.payload.blob \in Blobs)
        => LET s == After(event)
           IN  /\ s.currentBlob = event.payload.blob
               /\ s.currentFilename =
                    IF event.payload.filename = Undefined
                    THEN "design.stl" ELSE event.payload.filename
               /\ s.posted = <<>>

\* an export of blobB without a file name has been handled after an export
\* of blobA whose read is still pending or has built the mesh
C7_Witness ==
  /\ variant = "script.js" /\ HandledTrusted("export-stl")
  /\ currentBlob = "blobB" /\ currentFilename = "design.stl"
  /\ (pending["blobA"] > 0 \/ mesh = "blobA")

\* ---------------------------------------------------------------- C8
\* this step is the 'message' listener handling a trusted 'export-stl'
\* whose payload has no blob
MissingBlobStep ==
  /\ lastCall'.op = "handleMessage"
  /\ lastCall'.origin = TrustedOrigin
  /\ lastCall'.type = "export-stl"
  /\ "error: No blob in export-stl payload" \in consoleOut'

\* C8: a trusted 'export-stl' without a blob leaves the artifact and the
\* ready flag as they were, posts nothing, and shows the missing-artifact
\* error in the status line.
C8_MissingBlobSurfaced ==
  [][MissingBlobStep =>
       /\ UNCHANGED <<currentBlob, currentFilename, isReady>>
       /\ posted' = <<>>
       /\ statusText' = StatusNoData]_vars

\* ---------------------------------------------------------------- C9
\* C9: the host posts no message, automatic or manual, before the first
\* trusted 'ready' message has been received.
C9_NothingBeforeReady == posted # <<>> => readyCount >= 1

\* ---------------------------------------------------------------- C10
\* C10: once a trusted 'ready' message has been handled, the status line
\* shows the version that message reported.
C10_VersionShown ==
  HandledTrusted("ready") => statusText.fmt = "CADit ready (v%s)"

\* ---------------------------------------------------------------- C11
\* trusted events the protocol has no handler for: no data, a missing or
\* empty type tag, or a tag other than 'ready' and 'export-stl'
UnhandledEvents ==
  {event \in TrustedEvents :
     ~event.hasData \/ event.type \notin {"ready", "export-stl"}}

\* a trusted 'ready' and a trusted 'export-stl' that arrive afterwards
LaterEvents ==
  {event \in TrustedEvents :
     /\ event.hasData
     /\ \/ event.type = "ready" /\ event.payload.version = "1.0"
        \/ /\ event.type = "export-stl"
           /\ event.payload.blob = "blobA"
           /\ event.payload.filename = "part.stl"}

\* what a handler leaves behind, the log panel and the console aside
OutcomeOf(s) ==
  <<SessionOf(s), s.posted, s.alertMsg, s.download, s.readyCount, s.pending,
    s.mesh, s.renderer, s.getStlBtnDisabled, s.downloadBtnDisabled,
    s.previewDisplay>>

\* C11: in every reachable state, a trusted event with no type tag or with
\* an unknown tag leaves the ready flag, the artifact and the status as
\* they were, posts nothing and starts no download; an event without a tag
\* also leaves the log panel alone; and a 'ready' or an 'export-stl'
\* handled after it has the result it would have had without it.
C11_UnknownIsNoOp ==
  \A event \in UnhandledEvents :
    LET s == After(event)
    IN  /\ SessionOf(s) = SessionOf(State)
        /\ s.posted = <<>>
        /\ s.alertMsg = "" /\ s.download = NoDownload
        /\ s.readyCount = readyCount /\ s.pending = pending /\ s.mesh = mesh
        /\ ~Truthy(event.type) => s.eventLog = eventLog
        /\ \A later \in LaterEvents :
             OutcomeOf(handleMessage(Enter(s), later)) = OutcomeOf(After(later))

\* an unknown tag has been handled in a ready session that holds an artifact
C11_Witness ==
  /\ HandledTrusted("resize")
  /\ "log: Unknown message type" \in consoleOut
  /\ isReady /\ currentBlob = "blobA" /\ posted = <<>>

\* ---------------------------------------------------------------- C12
\* C12: in every reachable state, ready or not, a trusted 'export-stl'
\* with a blob is taken: script.js stores the blob and the file name,
\* part_000 downloads them, the result is the one a ready session gets, and
\* the ready flag stays as it was.
C12_ExportBeforeReady ==
  \A event \in TrustedEvents :
    (event.hasData /\ event.type = "export-stl" /\ event.payload.blob \in Blobs)
      => LET s == After(event)
             r == handleMessage([Enter(State) EXCEPT !.isReady = TRUE], event)
         IN  /\ s.isReady = isReady
             /\ s.currentBlob = r.currentBlob
             /\ s.currentFilename = r.currentFilename
             /\ s.download = r.download
             /\ IF variant = "script.js"
                THEN s.currentBlob = event.payload.blob
                ELSE s.download.blob = event.payload.blob

\* an export has been stored in a session that never received 'ready' and
\* never posted a request
C12_Witness ==
  /\ variant = "script.js" /\ HandledTrusted("export-stl")
  /\ ~isReady /\ readyCount = 0
  /\ currentBlob = "blobB" /\ currentFilename = "part.stl"

\* ---------------------------------------------------------------- C13
IframeError == "error: CADit iframe not available"

\* C13: while the iframe is unavailable, every send (the init of a trusted
\* 'ready' or of the init button, the get-stl of a ready session) posts
\* nothing, writes the console error and shows no alert; nothing is kept
\* for later: a handler posts at most the one message of its own call, the
\* iframe coming back posts nothing; and a trusted 'ready' handled next
\* still leaves the session ready.
C13_DroppedNotQueued ==
  /\ ~contentWindow =>
       /\ LET s == sendInit(Enter(State))
          IN  s.posted = <<>> /\ IframeError \in s.consoleOut /\ s.alertMsg = ""
       /\ isReady =>
            LET s == requestStl(Enter(State))
            IN  s.posted = <<>> /\ IframeError \in s.consoleOut /\ s.alertMsg = ""
       /\ \A event \in LaterEvents :
            LET s == After(event)
            IN  /\ s.posted = <<>>
                /\ event.type = "ready" => (IframeError \in s.consoleOut /\ s.isReady)
  /\ IframeError \in consoleOut => (posted = <<>> /\ ~contentWindow)
  /\ lastCall.op = "frame" => posted = <<>>
  /\ Len(posted) <= 1
  /\ posted # <<>> =>
       IF lastCall.op = "requestStl" THEN posted[1].type = "get-stl"
       ELSE /\ posted[1].type = "init"
            /\ lastCall.op = "sendInit" \/ HandledTrusted("ready")

\* a get-stl request has been dropped because the iframe was unavailable
C13_Witness ==
  /\ lastCall.op = "requestStl" /\ isReady /\ ~contentWindow
  /\ IframeError \in consoleOut /\ posted = <<>>

\* ---------------------------------------------------------------- C14
C14_Step ==
  Truthy(currentBlob) =>
    (currentBlob' \in Blobs /\ Truthy(currentFilename'))

\* C14: the artifact starts empty; once an export has stored a blob, every
\* later step leaves a blob and a non-empty file name stored; and a blob is
\* stored exactly when a file name is.
C14_ArtifactNeverCleared ==
  /\ currentBlob = Null
  /\ [][C14_Step /\ (Truthy(currentBlob') <=> Truthy(currentFilename'))]_vars

\* a 'ready' has been handled in a session that holds an artifact
C14_Witness ==
  /\ HandledTrusted("ready") /\ currentBlob = "blobA"
  /\ currentFilename = "design.stl"

\* ---------------------------------------------------------------- C15
\* the tags of the protocol, and the payloads that travel with them
Vocabulary == {"init", "get-stl", "ready", "export-stl"}
AllPayloads == ReadyPayloads \cup ExportPayloads \cup {InitPayload, NullPayload}

\* C15: for every tag of the vocabulary and every payload, null and
\* undefined included, decoding the message sendMessage builds gives the
\* tag and the payload back without an error; and every message the host
\* has posted decodes to the tag and payload its sender passed.
C15_RoundTrip ==
  /\ \A tag \in Vocabulary, payload \in AllPayloads :
       decode(encode(tag, payload)) =
         [error |-> "", type |-> tag, payload |-> payload]
  /\ \A i \in 1..Len(posted) :
       LET message == decode(Data(TRUE, posted[i].type, posted[i].payload))
       IN  /\ message.error = ""
           /\ message.type = "get-stl" => message.payload = NullPayload
           /\ message.type = "init" => message.payload = InitPayload

\* the get-stl message, whose payload is null, has been posted
C15_Witness ==
  /\ posted = <<Message("get-stl", NullPayload, TrustedOrigin)>>
  /\ posted[1].payload.kind = "null"

\* ---------------------------------------------------------------- C16
\* C16: in script.js, downloadStl leaves the artifact and the ready flag as
\* they are and posts nothing; with an artifact it downloads that blob
\* under that file name; without one it downloads nothing, alerts the user
\* and leaves the status line alone.
C16_DownloadReadsOnly ==
  variant = "script.js" =>
    LET s == downloadStl(Enter(State))
    IN  /\ s.currentBlob = currentBlob
        /\ s.currentFilename = currentFilename
        /\ s.isReady = isReady
        /\ s.posted = <<>>
        /\ PageOf(s) = PageOf(State)
        /\ IF currentBlob \in Blobs
           THEN /\ s.download = [blob |-> currentBlob, filename |-> currentFilename]
                /\ s.alertMsg = ""
           ELSE /\ s.download = NoDownload
                /\ s.alertMsg = "No STL file available. Request an export first."
                /\ s.statusText = statusText

\* downloadStl has just downloaded the stored artifact
C16_Witness ==
  /\ lastCall.op = "downloadStl" /\ currentBlob = "blobB"
  /\ download = [blob |-> "blobB", filename |-> currentFilename]
  /\ posted = <<>>

\* ---------------------------------------------------------------- C17
\* C17: in script.js, once every pending blob read has completed, the mesh
\* in the scene is the one built from the most recent export, the blob in
\* currentBlob, whatever the order in which the reads completed.
C17_LatestMeshShown ==
  (variant = "script.js" /\ TotalPending(State) = 0 /\ currentBlob \in Blobs)
    => mesh = currentBlob

\* ---------------------------------------------------------------- C18
\* C18: when requestStl has left 'Requesting STL export...' in the status
\* line it has posted a get-stl message, and when sendInit has left
\* 'Initialized with partner name: ...' it has posted an init message.
C18_StatusMatchesSend ==
  /\ (lastCall.op = "requestStl" /\ statusText = StatusRequesting)
       => posted = <<Message("get-stl", NullPayload, TrustedOrigin)>>
  /\ ((lastCall.op = "sendInit" \/ HandledTrusted("ready"))
        /\ statusText = StatusInitialized)
       => posted = <<InitMessage>>

====
